---- MODULE Spec2Model ----
(***************************************************************************)
(* A model of the gd-second-brain-os automation scripts: calendar-window   *)
(* arithmetic, file creation in the vault, YAML front-matter rewriting,    *)
(* the Knowledge Hub sync, the Redis cycle-date writers and the cron log   *)
(* cleanup.  Each group of scripts has its own specification over the      *)
(* shared variables; the variables a specification does not use stay at    *)
(* their idle value.                                                       *)
(***************************************************************************)
EXTENDS Integers, Sequences, FiniteSets, TLC

VARIABLES
    today,      \* the current day, as a proleptic Gregorian ordinal (datetime.now())
    out,        \* what the last run of a script or function returned or did
    dropbox,    \* the Dropbox vault: the folders and files the scripts touch
    local,      \* the local disk: the local vault, the cron log directory
    redis,      \* the Redis keys the scripts read and set
    services,   \* the other remote services: the Notion database, the Gmail inbox
    pc          \* where each running script is, with what it holds in memory

None == [none |-> TRUE]

Min2(a, b) == IF a < b THEN a ELSE b
Max2(a, b) == IF a > b THEN a ELSE b

(***************************************************************************)
(* The calendar behind datetime: strptime turns the text "YYYY-MM-DD"      *)
(* (modelled by its three fields <<y, m, d>>) into a day count, timedelta  *)
(* adds days to the count, and strftime turns the count back into fields.  *)
(***************************************************************************)
YearSpan == 2
FirstYear == 2024
Years == FirstYear..(FirstYear + YearSpan)

IsLeap(y) == (y % 4 = 0) /\ ((y % 100 # 0) \/ (y % 400 = 0))

DaysInMonth(y, m) ==
    IF m = 2 THEN (IF IsLeap(y) THEN 29 ELSE 28)
    ELSE IF m \in {4, 6, 9, 11} THEN 30 ELSE 31

DaysBeforeYear(y) ==
    (y - 1) * 365 + ((y - 1) \div 4) - ((y - 1) \div 100) + ((y - 1) \div 400)

DaysBeforeMonth(y, m) ==
    <<0, 31, 59, 90, 120, 151, 181, 212, 243, 273, 304, 334>>[m]
        + (IF m > 2 /\ IsLeap(y) THEN 1 ELSE 0)

\* datetime.strptime(text, '%Y-%m-%d'): the day count of a date text
strptime(s) == DaysBeforeYear(s[1]) + DaysBeforeMonth(s[1], s[2]) + s[3]

YearOf(n) == CHOOSE y \in (n \div 366)..((n \div 365) + 1) : DaysBeforeYear(y) < n /\ n <= DaysBeforeYear(y + 1)
MonthOf(n) ==
    LET y == YearOf(n)
        k == n - DaysBeforeYear(y)
    IN  CHOOSE m \in 1..12 :
            DaysBeforeMonth(y, m) < k /\ k <= DaysBeforeMonth(y, m) + DaysInMonth(y, m)
DayOf(n) == n - DaysBeforeYear(YearOf(n)) - DaysBeforeMonth(YearOf(n), MonthOf(n))

\* dt.strftime('%Y-%m-%d')
strftime(n) == <<YearOf(n), MonthOf(n), DayOf(n)>>
\* dt.strftime('%b. %d'): month and day, the year is not part of the text
strftime_bd(n) == <<MonthOf(n), DayOf(n)>>

\* dt.weekday(): Monday is 0, Sunday is 6
weekday(n) == (n + 6) % 7

ValidDates == {s \in Years \X (1..12) \X (1..31) : s[3] <= DaysInMonth(s[1], s[2])}
Days == {strptime(s) : s \in ValidDates}

vars == <<today, out, dropbox, local, redis, services, pc>>

(***************************************************************************)
(* The calendar-window calculators of the file-creation scripts.           *)
(***************************************************************************)
\* create_weeks.py: the nearest upcoming Sunday, never today
upcoming_sunday(t) ==
    LET days_until_sunday == (6 - weekday(t)) % 7
    IN  t + (IF days_until_sunday = 0 THEN 7 ELSE days_until_sunday)

\* create_newsletter_page.py: the next Sunday the newsletter date is based on
newsletter_next_sunday(t) ==
    LET days_until_next_sunday == (6 - weekday(t)) % 7
    IN  t + (IF days_until_next_sunday = 0 THEN 7 ELSE days_until_next_sunday)
second_upcoming_sunday(t) == newsletter_next_sunday(t) + 7

\* create_weekly_map.py: next_sunday has no correction for a Sunday
weekly_map_next_sunday(t) ==
    LET days_until_sunday == (6 - weekday(t)) % 7
    IN  t + days_until_sunday
sunday_after_next(t) == weekly_map_next_sunday(t) + 7

\* create_new_cycle_page.py (Dropbox and local): the next Wednesday, never today
next_wednesday(t) ==
    LET days_until_next_wednesday == (2 - weekday(t)) % 7
    IN  t + (IF days_until_next_wednesday = 0 THEN 7 ELSE days_until_next_wednesday)
following_tuesday(t) == next_wednesday(t) + 6

(***************************************************************************)
(* The cycle calculators: a start date text in, four date texts out.       *)
(***************************************************************************)
\* a six-week cycle that ends after 7*6 days instead of 7*6-1
calculate_six_week_cycles_42(start_date) ==
    LET start == strptime(start_date)
        end == start + (7 * 6)
        next_start == end + 15
        next_end == next_start + (7 * 6 - 1)
    IN  [start_date |-> start_date, end_date |-> strftime(end),
         next_start_date |-> strftime(next_start), next_end_date |-> strftime(next_end)]

\* create_cycle_and_cooling_period_pages.py
calculate_six_week_cycles(start_date) ==
    LET start == strptime(start_date)
        end == start + (7 * 6 - 1)
        next_start == end + 15
        next_end == next_start + (7 * 6 - 1)
    IN  [start_date |-> start_date, end_date |-> strftime(end),
         next_start_date |-> strftime(next_start), next_end_date |-> strftime(next_end)]

\* update_long_cycle_start_dates.py
calculate_six_week_cycles_manual(start_date) ==
    LET start == strptime(start_date)
        end == start + (7 * 6 - 1)
        next_start == end + 15
        next_end == next_start + (7 * 6 - 1)
    IN  [start_date |-> start_date, end_date |-> strftime(end),
         next_start_date |-> strftime(next_start), next_end_date |-> strftime(next_end)]

\* long_cycle_date_resolver.py
calculate_six_week_cycles_resolver(start_date) ==
    LET start == strptime(start_date)
        end == start + (7 * 6 - 1)
        next_start == end + 15
        next_end == next_start + (7 * 6 - 1)
    IN  [start_date |-> start_date, end_date |-> strftime(end),
         next_start_date |-> strftime(next_start), next_end_date |-> strftime(next_end)]

calculate_two_week_cooling_periods(start_date) ==
    LET start == strptime(start_date)
        end == start + 13
        next_start == start + 8 * 7
        next_end == next_start + 13
    IN  [start_date |-> start_date, end_date |-> strftime(end),
         next_start_date |-> strftime(next_start), next_end_date |-> strftime(next_end)]

(***************************************************************************)
(* SpecDates: the calculators applied to every day of the modelled years.  *)
(***************************************************************************)
InitDates ==
    /\ today \in Days
    /\ out = None
    /\ dropbox = None
    /\ local = None
    /\ redis = None /\ services = None /\ pc = None

NextWeekdayOf(script, t) ==
    CASE script = "create_weeks" -> upcoming_sunday(t)
      [] script = "create_newsletter_page" -> newsletter_next_sunday(t)
      [] script = "create_weekly_map" -> weekly_map_next_sunday(t)
      [] script = "create_new_cycle_page" -> next_wednesday(t)

TargetWeekday(script) == IF script = "create_new_cycle_page" THEN 2 ELSE 6

WeekdayScripts ==
    {"create_weeks", "create_newsletter_page", "create_weekly_map", "create_new_cycle_page"}

ComputeNextWeekday ==
    \E script \in WeekdayScripts :
        /\ out' = [fn |-> script, arg |-> today, res |-> NextWeekdayOf(script, today)]
        /\ UNCHANGED <<redis, services, pc, today, dropbox, local>>

SixWeekCopies == {"file-creation", "manual", "resolver"}

SixWeekOf(copy, s) ==
    CASE copy = "file-creation" -> calculate_six_week_cycles(s)
      [] copy = "manual" -> calculate_six_week_cycles_manual(s)
      [] copy = "resolver" -> calculate_six_week_cycles_resolver(s)

ComputeSixWeekCycles ==
    \E copy \in SixWeekCopies :
        /\ out' = [fn |-> copy, arg |-> strftime(today), res |-> SixWeekOf(copy, strftime(today))]
        /\ UNCHANGED <<redis, services, pc, today, dropbox, local>>

NextDates == ComputeNextWeekday \/ ComputeSixWeekCycles

SpecDates == InitDates /\ [][NextDates]_vars

\* C2: for every date D the next-weekday computation of create_weeks,
\* create_newsletter_page, create_weekly_map and create_new_cycle_page returns
\* a date >= D on the target weekday, and D+7 when D is on the target weekday.
C2_NextWeekdayRollsForward ==
    (out # None /\ out.fn \in WeekdayScripts) =>
        /\ out.res >= out.arg
        /\ weekday(out.res) = TargetWeekday(out.fn)
        /\ (weekday(out.arg) = TargetWeekday(out.fn) => out.res = out.arg + 7)

\* C3: in each of the three copies, calculate_six_week_cycles(start) returns
\* an end date 41 days after start and a next start 56 days after start.
C3_SixWeekOffsets ==
    (out # None /\ out.fn \in SixWeekCopies) =>
        /\ strptime(out.res.end_date) = strptime(out.arg) + 41
        /\ strptime(out.res.next_start_date) = strptime(out.arg) + 56

\* a cycle computed by every copy whose end date falls in the year after its
\* start and whose start is in a leap-year February
C3_Witness ==
    /\ out # None /\ out.fn \in SixWeekCopies
    /\ out.arg[2] = 2 /\ IsLeap(out.arg[1])
    /\ out.res.end_date[2] > 2

(***************************************************************************)
(* SpecCreate: the "create X for date D" scripts run against the vault.    *)
(* A Dropbox folder is the sequence of its entries in listing order; a     *)
(* local folder is the set of its file names.  A file name is a record of  *)
(* the fields its text is formatted from.                                  *)
(***************************************************************************)
PageLimit == 2
MaxExisting == 2
MaxDayOffset == 3
MaxFiles == 4

\* dt.strftime('%b. %d, %Y') and f"{dt.strftime('%b')} {dt.day}, {dt.strftime('%Y')}"
strftime_bdY(n) == <<MonthOf(n), DayOf(n), YearOf(n)>>

\* response.entries of dbx.files_list_folder(path): the first page of the listing only
first_page(listing) == SubSeq(listing, 1, Min2(PageLimit, Len(listing)))

\* f"({formatted_wednesday} - {formatted_tuesday})"
date_range(t) == <<strftime_bd(next_wednesday(t)), strftime_bdY(following_tuesday(t))>>

SetMax(S) == CHOOSE x \in S : \A y \in S : y <= x

\* Dropbox fetch_last_cycle_number: the largest "Cycle N" on the first page, or 0
fetch_last_cycle_number(listing) ==
    LET cycle_numbers == {first_page(listing)[i].name.number : i \in
            {j \in 1..Len(first_page(listing)) : first_page(listing)[j].name.title = "Cycle"}}
    IN  IF cycle_numbers = {} THEN 0 ELSE SetMax(cycle_numbers)

\* Dropbox date_range_exists: a file on the first page whose name contains the range
date_range_exists(listing, range) ==
    \E i \in 1..Len(first_page(listing)) : first_page(listing)[i].name.range = range

\* dbx.files_upload(content, path) in the default add mode without autorename:
\* a new path is added; an existing path is left as it is (same content: no-op,
\* other content: conflict ApiError)
files_upload(listing, file) ==
    IF \E i \in 1..Len(listing) : listing[i].name = file.name
    THEN listing
    ELSE Append(listing, file)

\* dbx.files_get_metadata(path) succeeds
path_exists(listing, name) == \E i \in 1..Len(listing) : listing[i].name = name

CycleFile(number, t) ==
    [name |-> [title |-> "Cycle", number |-> number, range |-> date_range(t)],
     content |-> <<strftime(next_wednesday(t)), strftime(following_tuesday(t))>>]

\* dropbox-api/file-creation/create_new_cycle_page.py create_cycle_file
create_cycle_file(listing, t) ==
    LET new_cycle_number == fetch_last_cycle_number(listing) + 1
    IN  IF date_range_exists(listing, date_range(t))
        THEN listing
        ELSE files_upload(listing, CycleFile(new_cycle_number, t))

\* local-file-creation/create_new_cycle_page.py fetch_last_cycle_number
local_fetch_last_cycle_number(names) ==
    IF names = {} THEN 0 ELSE SetMax({n.number : n \in names})

\* local-file-creation/create_new_cycle_page.py create_cycle_file: the existence
\* check is on the full numbered file name
local_create_cycle_file(names, t) ==
    LET new_cycle_number == local_fetch_last_cycle_number(names) + 1
        file_name == [title |-> "Cycle", number |-> new_cycle_number, range |-> date_range(t)]
    IN  IF file_name \in names THEN names ELSE names \cup {file_name}

\* file-creation/create_weekly_health_review_page.py create_health_review_file
local_create_health_review_file(names, t) ==
    LET new_review_number == local_fetch_last_cycle_number(names) + 1
        file_name == [title |-> "Weekly Health Review", number |-> new_review_number,
                      range |-> date_range(t)]
    IN  IF file_name \in names THEN names ELSE names \cup {file_name}

JournalFile(t) ==
    [name |-> [title |-> "Journal", number |-> 0, range |-> strftime_bdY(t + 1)],
     content |-> strftime_bdY(t + 1)]

\* dropbox-api/file-creation/create_daily_journal.py create_journal_file
create_journal_file(listing, t) ==
    IF path_exists(listing, JournalFile(t).name)
    THEN listing
    ELSE files_upload(listing, JournalFile(t))

\* the cycle pages of the k weeks before the week of day t
ExistingCycles(k, t) == [i \in 1..k |-> CycleFile(i, t - 7 * (k - i + 1))]

NewYearsEve == strptime(<<FirstYear, 12, 31>>)
CreateDays == {NewYearsEve + k : k \in (0 - MaxDayOffset)..MaxDayOffset}

CreateScripts ==
    {"dropbox_create_new_cycle_page", "dropbox_create_daily_journal",
     "local_create_new_cycle_page", "local_create_weekly_health_review_page"}

\* one creation script is run again and again; nothing else writes to the vault
InitCreate ==
    /\ today \in CreateDays
    /\ redis = None /\ services = None /\ pc = None
    /\ \E script \in CreateScripts : out = [fn |-> script, target |-> <<>>, rerun |-> FALSE]
    /\ \E k \in 0..MaxExisting :
        /\ dropbox = [cycles |-> ExistingCycles(k, today), journal |-> <<>>]
        /\ local = [cycles |-> {ExistingCycles(k, today)[i].name : i \in 1..k},
                    health_review |-> {}]

\* what a run reports: the script, its target date and whether the run before
\* it was for the same target
RunOf(script, target) ==
    [fn |-> script, target |-> target, rerun |-> (out.target = target)]

RunCreateCycleDropbox ==
    /\ out.fn = "dropbox_create_new_cycle_page"
    /\ Len(dropbox.cycles) < MaxFiles
    /\ dropbox' = [dropbox EXCEPT !.cycles = create_cycle_file(@, today)]
    /\ out' = RunOf("dropbox_create_new_cycle_page", date_range(today))
    /\ UNCHANGED <<redis, services, pc, today, local>>

RunCreateCycleLocal ==
    /\ out.fn = "local_create_new_cycle_page"
    /\ Cardinality(local.cycles) < MaxFiles
    /\ local' = [local EXCEPT !.cycles = local_create_cycle_file(@, today)]
    /\ out' = RunOf("local_create_new_cycle_page", date_range(today))
    /\ UNCHANGED <<redis, services, pc, today, dropbox>>

RunCreateHealthReviewLocal ==
    /\ out.fn = "local_create_weekly_health_review_page"
    /\ Cardinality(local.health_review) < MaxFiles
    /\ local' = [local EXCEPT !.health_review = local_create_health_review_file(@, today)]
    /\ out' = RunOf("local_create_weekly_health_review_page", date_range(today))
    /\ UNCHANGED <<redis, services, pc, today, dropbox>>

RunCreateJournalDropbox ==
    /\ out.fn = "dropbox_create_daily_journal"
    /\ Len(dropbox.journal) < MaxFiles
    /\ dropbox' = [dropbox EXCEPT !.journal = create_journal_file(@, today)]
    /\ out' = RunOf("dropbox_create_daily_journal", strftime_bdY(today + 1))
    /\ UNCHANGED <<redis, services, pc, today, local>>

\* midnight passes
AdvanceDay ==
    /\ today + 1 \in CreateDays
    /\ today' = today + 1
    /\ UNCHANGED <<redis, services, pc, out, dropbox, local>>

NextCreate ==
    \/ RunCreateCycleDropbox
    \/ RunCreateCycleLocal
    \/ RunCreateHealthReviewLocal
    \/ RunCreateJournalDropbox
    \/ AdvanceDay

SpecCreate == InitCreate /\ [][NextCreate]_vars

\* the names of the files for target date D in the folder a script writes
FilesFor(script, target) ==
    CASE script = "dropbox_create_new_cycle_page" ->
            {dropbox.cycles[i].name : i \in {j \in 1..Len(dropbox.cycles) :
                                              dropbox.cycles[j].name.range = target}}
      [] script = "dropbox_create_daily_journal" ->
            {dropbox.journal[i].name : i \in {j \in 1..Len(dropbox.journal) :
                                               dropbox.journal[j].name.range = target}}
      [] script = "local_create_new_cycle_page" -> {n \in local.cycles : n.range = target}
      [] script = "local_create_weekly_health_review_page" ->
            {n \in local.health_review : n.range = target}

\* C1: after a script has been run a second time for the same target date D
\* with no other writer in between, its target folder holds exactly one file
\* for D, the numbered weekly pages and the local variants included.
C1_RerunLeavesOneFile ==
    out.rerun => Cardinality(FilesFor(out.fn, out.target)) = 1

(***************************************************************************)
(* SpecYaml: the front matter of a note read by extract_yaml_metadata and  *)
(* written back by save_updated_file.  A note is the sequence of its text  *)
(* lines.  A metadata value is a string, given as the sequence of the      *)
(* lines it holds (one element when it has no line break).  A line is a    *)
(* record of what the text of the line says:                               *)
(*   delim      ---                                                        *)
(*   entry      key: "a\nb\nc"   (double quoted, escapes, one line)        *)
(*              key: a           (plain)                                   *)
(*              key: 'a          (single quoted, closed here or below)     *)
(*   blank      an empty line                                              *)
(*   cont       "  b" or "  c'": an indented line continuing a single      *)
(*              quoted string, closed when it ends with the quote          *)
(*   empty_map  {}                                                         *)
(*   body       a line of prose after the front matter                     *)
(***************************************************************************)
MaxValueLines == 3
MaxBodyLines == 1

DelimLine == [kind |-> "delim"]
BlankLine == [kind |-> "blank"]
EntryLine(key, style, value, closed) ==
    [kind |-> "entry", key |-> key, style |-> style, value |-> value, closed |-> closed]
ContLine(text, closed) == [kind |-> "cont", text |-> text, closed |-> closed]

YamlError == [ok |-> FALSE, value |-> <<>>]

\* line.strip() == "---": the delimiter, and also an indented line that holds
\* nothing but the three dashes
strip_is_dashes(line) ==
    \/ line.kind = "delim"
    \/ (line.kind = "cont" /\ ~line.closed /\ line.text = "---")

\* yaml.safe_dump(value) of one key, default style: a one-line string is plain
\* (quoted when it is "---"); a string with line breaks is single quoted, every
\* line break written as an empty line followed by the next line indented
RECURSIVE dump_rest(_, _)
dump_rest(value, i) ==
    IF i > Len(value) THEN <<>>
    ELSE <<BlankLine, ContLine(value[i], i = Len(value))>> \o dump_rest(value, i + 1)

dump_entry(key, value) ==
    IF Len(value) = 1
    THEN <<EntryLine(key, IF value[1] = "---" THEN "single" ELSE "plain", value, TRUE)>>
    ELSE <<EntryLine(key, "single", <<value[1]>>, FALSE)>> \o dump_rest(value, 2)

\* yaml.safe_dump(metadata, default_flow_style=False, sort_keys=False)
RECURSIVE safe_dump_from(_, _)
safe_dump_from(metadata, i) ==
    IF i > Len(metadata) THEN <<>>
    ELSE dump_entry(metadata[i][1], metadata[i][2]) \o safe_dump_from(metadata, i + 1)

safe_dump(metadata) ==
    IF metadata = <<>> THEN <<[kind |-> "empty_map"]>> ELSE safe_dump_from(metadata, 1)

\* yaml.safe_load(yaml_str): ok and the mapping as the sequence of its
\* <<key, value>> pairs, or YamlError.  quoted is <<>> outside a string, else <<key, lines so far>>.
RECURSIVE safe_load_from(_, _, _, _)
safe_load_from(lines, i, quoted, acc) ==
    IF i > Len(lines)
    THEN (IF quoted = <<>> THEN [ok |-> TRUE, value |-> acc] ELSE YamlError)
    ELSE LET line == lines[i] IN
         IF quoted # <<>>
         THEN CASE line.kind = "blank" -> safe_load_from(lines, i + 1, quoted, acc)
                [] line.kind = "cont" /\ line.closed ->
                       safe_load_from(lines, i + 1, <<>>,
                                      Append(acc, <<quoted[1], Append(quoted[2], line.text)>>))
                [] line.kind = "cont" /\ ~line.closed ->
                       safe_load_from(lines, i + 1,
                                      <<quoted[1], Append(quoted[2], line.text)>>, acc)
                [] OTHER -> YamlError
         ELSE CASE line.kind = "blank" -> safe_load_from(lines, i + 1, quoted, acc)
                [] line.kind = "entry" /\ line.closed ->
                       safe_load_from(lines, i + 1, <<>>, Append(acc, <<line.key, line.value>>))
                [] line.kind = "entry" /\ ~line.closed ->
                       safe_load_from(lines, i + 1, <<line.key, line.value>>, acc)
                [] line.kind = "empty_map" /\ Len(lines) = 1 -> [ok |-> TRUE, value |-> acc]
                [] OTHER -> YamlError

safe_load(lines) == safe_load_from(lines, 1, <<>>, <<>>)

\* the index of the first line after the opening one whose strip() is "---", or 0
closing_line(lines) ==
    IF \E i \in 2..Len(lines) : strip_is_dashes(lines[i])
    THEN CHOOSE i \in 2..Len(lines) :
            strip_is_dashes(lines[i]) /\ \A j \in 2..(i - 1) : ~strip_is_dashes(lines[j])
    ELSE 0

\* update_daily_properties.py extract_yaml_metadata: (metadata, remaining_content),
\* or (None, None), here none = TRUE, on a YAML error
extract_yaml_metadata(lines) ==
    IF Len(lines) > 0 /\ strip_is_dashes(lines[1])
    THEN LET close == closing_line(lines)
             yaml_lines == IF close = 0 THEN SubSeq(lines, 2, Len(lines))
                           ELSE SubSeq(lines, 2, close - 1)
             loaded == safe_load(yaml_lines)
         IN  IF ~loaded.ok
             THEN [none |-> TRUE, metadata |-> <<>>, content |-> <<>>]
             ELSE [none |-> FALSE, metadata |-> loaded.value,
                   content |-> IF close = 0 THEN <<>> ELSE SubSeq(lines, close + 1, Len(lines))]
    ELSE [none |-> FALSE, metadata |-> <<>>, content |-> lines]

\* update_daily_properties.py save_updated_file: f"---\n{yaml_str}---\n{content}"
save_updated_file(metadata, content) ==
    <<DelimLine>> \o safe_dump(metadata) \o <<DelimLine>> \o content

SeqsOver(S, lo, hi) == UNION {[1..n -> S] : n \in lo..hi}

\* a note as an editor saved it: every value on one line, double quoted
NoteOf(metadata, body) ==
    <<DelimLine>>
        \o [i \in 1..Len(metadata) |-> EntryLine(metadata[i][1], "double", metadata[i][2], TRUE)]
        \o <<DelimLine>> \o body

\* well-formed front matter: a mapping of at most two keys, no key twice, each
\* value a string of lines "x" or "---"
Metadatas ==
    {m \in SeqsOver({"Journal", "Tags"} \X SeqsOver({"x", "---"}, 1, MaxValueLines), 0, 2) :
        \A i, j \in 1..Len(m) : i # j => m[i][1] # m[j][1]}

InitYaml ==
    /\ today = 0
    /\ local = None
    /\ redis = None /\ services = None /\ pc = None
    /\ out = None
    /\ \E m \in Metadatas, b \in SeqsOver({[kind |-> "body"], DelimLine}, 0, MaxBodyLines) : dropbox = [note |-> NoteOf(m, b)]

\* update_daily_properties.py main, steps 2 and 5, with the metadata left as parsed
RoundTrip ==
    LET parsed == extract_yaml_metadata(dropbox.note) IN
    /\ dropbox.note # <<>>
    /\ ~parsed.none
    /\ dropbox' = [note |-> save_updated_file(parsed.metadata, parsed.content)]
    /\ out' = [fn |-> "round_trip", metadata |-> parsed.metadata]
    /\ UNCHANGED <<redis, services, pc, today, local>>

SpecYaml == InitYaml /\ [][RoundTrip]_vars

\* a mapping without the order of its keys
AsMapping(metadata) == {metadata[i] : i \in 1..Len(metadata)}

\* C4: a note with a well-formed mapping as front matter, parsed by
\* extract_yaml_metadata and written back unmodified by save_updated_file,
\* re-parses to the same keys with the same values.
C4_RoundTripSameMapping ==
    (out # None /\ out.fn = "round_trip") =>
        LET again == extract_yaml_metadata(dropbox.note)
        IN  ~again.none /\ AsMapping(again.metadata) = AsMapping(out.metadata)

(***************************************************************************)
(* SpecSync: sync_yt_and_knowledge_hub.py, started by cron again and       *)
(* again.  today counts clock ticks here; every event takes its own tick.  *)
(* services.notion is the set of pages of the Knowledge Hub database,      *)
(* services.gmail the YouTube share mails, dropbox.knowledge_hub the file  *)
(* names of the _Knowledge-Hub folder, redis.last_synced_knowledge_hub_at  *)
(* the shared timestamp (0: not set), pc.at the flow main() runs next.     *)
(* Pages and mails arrive before Horizon; the runs go on after it, and the  *)
(* clock stops at MaxClock, when every mail has long been harvested and    *)
(* every page is older than the timestamp.                                 *)
(***************************************************************************)
TicksPerDay == 8
Horizon == 5
MaxClock == 13
MaxPages == 2

DirectTitles == {"note", "video"}
Shares == {[url |-> "youtu.be/1", title |-> "video"]}

\* search_messages: the mails of the query  after:<day of last_checked_at>
\* whose URL is not yet in Notion
search_messages(last_checked_at) ==
    {m \in services.gmail :
        /\ (last_checked_at # 0 => m.at \div TicksPerDay >= last_checked_at \div TicksPerDay)
        /\ ~\E p \in services.notion : p.url = m.url}

InitSync ==
    /\ today = 1
    /\ out = None /\ local = None
    /\ dropbox = [knowledge_hub |-> {}]
    /\ redis = [last_synced_knowledge_hub_at |-> 0]
    /\ services = [notion |-> {}, gmail |-> {}]
    /\ pc = [at |-> "youtube_to_notion_main"]

\* a page saved to the Knowledge Hub database by hand
SaveToNotion ==
    /\ today < Horizon
    /\ Cardinality(services.notion) < MaxPages
    /\ \E title \in DirectTitles :
        services' = [services EXCEPT !.notion = @ \cup {[title |-> title, url |-> "", created |-> today]}]
    /\ today' = today + 1
    /\ UNCHANGED <<out, dropbox, local, redis, pc>>

\* a YouTube share mail arrives in the inbox
ShareVideo ==
    /\ today < Horizon
    /\ \E share \in Shares :
        /\ ~\E m \in services.gmail : m.url = share.url
        /\ services' = [services EXCEPT !.gmail = @ \cup {[url |-> share.url, title |-> share.title, at |-> today]}]
    /\ today' = today + 1
    /\ UNCHANGED <<out, dropbox, local, redis, pc>>

\* youtube_to_notion_main: add the new shares to Notion, then set the timestamp
youtube_to_notion_main ==
    /\ pc.at = "youtube_to_notion_main"
    /\ LET youtube_shares == search_messages(redis.last_synced_knowledge_hub_at) IN
        services' = [services EXCEPT !.notion = @ \cup
                        {[title |-> m.title, url |-> m.url, created |-> today] : m \in youtube_shares}]
    /\ redis' = [redis EXCEPT !.last_synced_knowledge_hub_at = Min2(today + 1, MaxClock)]
    /\ today' = Min2(today + 2, MaxClock)
    /\ pc' = [at |-> "notion_to_dropbox_main"]
    /\ UNCHANGED <<out, dropbox, local>>

\* notion_to_dropbox_main: export the pages created after the timestamp whose
\* file name is not in the folder yet, then set the timestamp
notion_to_dropbox_main ==
    /\ pc.at = "notion_to_dropbox_main"
    /\ LET last_run_timestamp == IF redis.last_synced_knowledge_hub_at = 0
                                 THEN today - TicksPerDay
                                 ELSE redis.last_synced_knowledge_hub_at
           pages == {p \in services.notion : p.created > last_run_timestamp}
       IN  dropbox' = [dropbox EXCEPT !.knowledge_hub =
                          @ \cup {p.title : p \in {q \in pages : q.title \notin @}}]
    /\ redis' = [redis EXCEPT !.last_synced_knowledge_hub_at = today]
    /\ today' = Min2(today + 1, MaxClock)
    /\ pc' = [at |-> "youtube_to_notion_main"]
    /\ UNCHANGED <<out, local, services>>

NextSync == SaveToNotion \/ ShareVideo \/ youtube_to_notion_main \/ notion_to_dropbox_main

SpecSync == InitSync /\ [][NextSync]_vars

\* cron starts main() every five minutes, and main() runs its two flows in turn
FairSpecSync ==
    SpecSync /\ WF_vars(youtube_to_notion_main) /\ WF_vars(notion_to_dropbox_main)

\* C5: with main() run again and again and no API failure, every page in the
\* Notion Knowledge Hub database, saved by hand or added from a YouTube share,
\* eventually has its Markdown file in the Dropbox Knowledge Hub folder
\* (exported, or a file of that name was there already).
C5_EveryPageEventuallyExported ==
    \A title \in DirectTitles :
        (\E p \in services.notion : p.title = title) ~> (title \in dropbox.knowledge_hub)

(***************************************************************************)
(* SpecRace: the three scripts that download a note, change its front      *)
(* matter and upload the whole text again, running at the same time on one *)
(* note.  dropbox.note is the text of the note, as the front matter        *)
(* properties the scripts change; dropbox.rev counts its revisions.        *)
(* pc[w] is where writer w is, the text it downloaded (buf), the revision  *)
(* that was (base) and the revision its upload made (wrote, 0: none).      *)
(***************************************************************************)
Writers == {"update_journal_property", "save_updated_file", "update_journal_file"}

formatted_date == "Jan 1, 2025"
tomorrow_iso_date == "2025-01-02"
experience_name == "Dinner"

Range(seq) == {seq[i] : i \in 1..Len(seq)}

\* update_modified_files_today.py update_journal_property: nothing to write when
\* the date is in the front matter, else the date appended to Journal
update_journal_property(content) ==
    IF formatted_date \in Range(content.Journal)
    THEN [upload |-> FALSE, content |-> content]
    ELSE [upload |-> TRUE, content |-> [content EXCEPT !.Journal = Append(@, formatted_date)]]

\* update_daily_properties.py update_yaml_metadata and save_updated_file
update_daily_properties(content) ==
    [upload |-> TRUE, content |-> [content EXCEPT !.Date = tomorrow_iso_date]]

\* relate_folder_files_to_journal.py update_journal_file: the links written
\* right under the property line, when the note has the property
update_journal_file(content) ==
    IF content.HasExperiences
    THEN [upload |-> TRUE, content |-> [content EXCEPT !.Experiences = <<experience_name>> \o @]]
    ELSE [upload |-> FALSE, content |-> content]

Modified(w, content) ==
    CASE w = "update_journal_property" -> update_journal_property(content)
      [] w = "save_updated_file" -> update_daily_properties(content)
      [] w = "update_journal_file" -> update_journal_file(content)

\* the mutation: an upload that keeps what the stored text has and the
\* uploaded text lacks
files_upload_merge(stored, uploaded) ==
    [uploaded EXCEPT
        !.Journal = @ \o SelectSeq(stored.Journal, LAMBDA link : link \notin Range(uploaded.Journal)),
        !.Date = IF @ = "" THEN stored.Date ELSE @,
        !.Experiences = @ \o SelectSeq(stored.Experiences,
                                       LAMBDA link : link \notin Range(uploaded.Experiences))]
\* dbx.files_upload(..., mode=WriteMode.overwrite): the new text of the file
files_upload_overwrite(stored, uploaded) == uploaded

InitRace ==
    /\ today = 0
    /\ out = None /\ local = None /\ redis = None /\ services = None
    /\ \E journal \in {<<>>, <<"Dec 31, 2024">>, <<formatted_date>>}, has \in BOOLEAN :
        dropbox = [note |-> [Journal |-> journal, Date |-> "", HasExperiences |-> has,
                             Experiences |-> <<>>],
                   rev |-> 1]
    /\ pc = [w \in Writers |-> [at |-> "start", buf |-> <<>>, base |-> 0, wrote |-> 0]]

\* dbx.files_download
Download(w) ==
    /\ pc[w].at = "start"
    /\ pc' = [pc EXCEPT ![w] = [at |-> "downloaded", buf |-> dropbox.note,
                                base |-> dropbox.rev, wrote |-> 0]]
    /\ UNCHANGED <<today, out, dropbox, local, redis, services>>

\* the change made in memory, then dbx.files_upload in overwrite mode
Upload(w) ==
    /\ pc[w].at = "downloaded"
    /\ LET m == Modified(w, pc[w].buf) IN
        IF m.upload
        THEN /\ dropbox' = [note |-> files_upload_overwrite(dropbox.note, m.content),
                            rev |-> dropbox.rev + 1]
             /\ pc' = [pc EXCEPT ![w].at = "done", ![w].wrote = dropbox.rev + 1]
        ELSE /\ pc' = [pc EXCEPT ![w].at = "done"]
             /\ UNCHANGED dropbox
    /\ UNCHANGED <<today, out, local, redis, services>>

NextRace == \E w \in Writers : Download(w) \/ Upload(w)

SpecRace == InitRace /\ [][NextRace]_vars

\* the change writer w makes is in the text
HasChangeOf(w, content) ==
    CASE w = "update_journal_property" -> formatted_date \in Range(content.Journal)
      [] w = "save_updated_file" -> content.Date = tomorrow_iso_date
      [] w = "update_journal_file" -> experience_name \in Range(content.Experiences)

\* writer b downloaded before writer a uploaded, and uploaded after it
Interleaved(a, b) ==
    /\ a # b
    /\ pc[a].wrote > 0
    /\ pc[b].base < pc[a].wrote
    /\ pc[a].wrote < pc[b].wrote

\* C6: a lost update is possible: when one writer downloads the note before
\* another writer's upload and uploads after it, and its text is the one the
\* note ends with, the other writer's change is missing from the note.
C6_LostUpdate ==
    \A a, b \in Writers :
        (Interleaved(a, b) /\ pc[b].wrote = dropbox.rev) => ~HasChangeOf(a, dropbox.note)

C6_Witness ==
    /\ \A w \in Writers : pc[w].at = "done"
    /\ \E a, b \in Writers :
        Interleaved(a, b) /\ pc[b].wrote = dropbox.rev /\ ~HasChangeOf(a, dropbox.note)

(***************************************************************************)
(* SpecRedis: the writers of the cycle-date keys.  redis.dates[period] are *)
(* the four keys of a period, as date texts:                               *)
(*   cycle:    6_week_cycle_start_date, 6_week_cycle_end_date,             *)
(*             next_6_week_cycle_start_date, next_6_week_cycle_end_date    *)
(*   cooling:  two_week_cooling_period_start_date, ..._end_date,           *)
(*             next_two_week_cooling_period_start_date, ..._end_date       *)
(* redis.set_by[period][key] records which writer set the key last.        *)
(* pc[w] is where writer w is: the period and dates it is writing and the  *)
(* index of the key it sets next.                                          *)
(***************************************************************************)
Periods == {"cycle", "cooling"}
KeyOrder == <<"start_date", "end_date", "next_start_date", "next_end_date">>
RedisWriters == {"resolve_cycle_dates", "update_long_cycle_start_dates"}

\* is_date_between
is_date_between(check_date, start_date, end_date) ==
    start_date <= check_date /\ check_date <= end_date

Unchanged == [changed |-> FALSE, period |-> "", dates |-> [key \in Range(KeyOrder) |-> <<>>]]
\* the mutation: the new cycle starts on the day given less one
NewCycleDayBefore(start) ==
    [changed |-> TRUE, period |-> "cycle", dates |-> calculate_six_week_cycles(strftime(start - 1))]
NewCycle(start) ==
    [changed |-> TRUE, period |-> "cycle", dates |-> calculate_six_week_cycles(strftime(start))]
\* the mutation: the new cooling period starts on the day given less one
NewCoolingDayBefore(start) ==
    [changed |-> TRUE, period |-> "cooling",
     dates |-> calculate_two_week_cooling_periods(strftime(start - 1))]
NewCooling(start) ==
    [changed |-> TRUE, period |-> "cooling",
     dates |-> calculate_two_week_cooling_periods(strftime(start))]

\* resolve_cycle_dates, up to the call of update_redis_dates: the period to
\* rewrite and its new dates, or no change
resolve_cycle_dates(today_date, stored) ==
    LET cooling_start_date == strptime(stored.cooling.start_date)
        cooling_end_date == strptime(stored.cooling.end_date)
        cycle_start_date == strptime(stored.cycle.start_date)
        cycle_end_date == strptime(stored.cycle.end_date)
        in_cooling_period == is_date_between(today_date, cooling_start_date, cooling_end_date)
        in_six_week_cycle == is_date_between(today_date, cycle_start_date, cycle_end_date)
        cooling_overlaps_cycle ==
            \/ is_date_between(cycle_start_date, cooling_start_date, cooling_end_date)
            \/ is_date_between(cycle_end_date, cooling_start_date, cooling_end_date)
        cycle_overlaps_cooling ==
            \/ is_date_between(cooling_start_date, cycle_start_date, cycle_end_date)
            \/ is_date_between(cooling_end_date, cycle_start_date, cycle_end_date)
    IN  IF in_cooling_period /\ cycle_end_date < today_date
        THEN NewCycle(cooling_end_date + 1)
        ELSE IF in_six_week_cycle /\ cooling_end_date < today_date
        THEN NewCooling(cycle_end_date + 1)
        ELSE IF in_cooling_period \/ in_six_week_cycle
        THEN IF in_cooling_period /\ (cooling_overlaps_cycle \/ cycle_overlaps_cooling)
             THEN NewCycle(cooling_end_date + 1)
             ELSE IF in_six_week_cycle /\ (cooling_overlaps_cycle \/ cycle_overlaps_cooling)
             THEN NewCooling(cycle_end_date + 1)
             ELSE Unchanged
        ELSE IF cooling_end_date < today_date /\ cycle_end_date < today_date
        THEN IF cooling_end_date > cycle_end_date
             THEN NewCycle(IF cooling_end_date + 1 < today_date THEN today_date + 1
                           ELSE cooling_end_date + 1)
             ELSE NewCooling(IF cycle_end_date + 1 < today_date THEN today_date + 1
                             ELSE cycle_end_date + 1)
        ELSE Unchanged

\* the mutation: all four keys set at once
update_redis_dates_at_once(stored, date_dict, i) == date_dict
\* update_redis_dates, one turn of its loop: r.set(key, value) for the i-th key
update_redis_dates(stored, date_dict, i) ==
    [stored EXCEPT ![KeyOrder[i]] = date_dict[KeyOrder[i]]]

\* days from the start of the stored cycle and cooling period to today
StartAges == {-20, 0, 10, 30, 50, 70}
\* the day the scripts run: the first of March of the first modelled year
RunDay == strptime(<<FirstYear, 3, 1>>)

InitRedis ==
    /\ today = RunDay
    /\ out = None /\ dropbox = None /\ local = None /\ services = None
    /\ \E a, b \in StartAges :
        redis = [dates |-> [cycle |-> calculate_six_week_cycles(strftime(today - a)),
                            cooling |-> calculate_two_week_cooling_periods(strftime(today - b))],
                 set_by |-> [p \in Periods |-> [key \in Range(KeyOrder) |-> "setup"]]]
    /\ pc = [w \in RedisWriters |-> [at |-> "start", period |-> "", dates |-> Unchanged.dates,
                                     next |-> 1]]

\* resolve_cycle_dates reads the keys and decides
ResolveStart ==
    LET w == "resolve_cycle_dates"
        resolved == resolve_cycle_dates(today, redis.dates)
    IN  /\ pc[w].at = "start"
        /\ pc' = [pc EXCEPT ![w] = [at |-> IF resolved.changed THEN "writing" ELSE "done",
                                    period |-> resolved.period, dates |-> resolved.dates,
                                    next |-> 1]]
        /\ UNCHANGED <<today, out, dropbox, local, redis, services>>

\* update_long_cycle_start_dates.py handle_six_week_cycle and
\* handle_two_week_cooling_period: the user enters a start date
ManualStart ==
    LET w == "update_long_cycle_start_dates" IN
    /\ pc[w].at = "start"
    /\ \E period \in Periods, start_date \in {strftime(today), strftime(today + 7)} :
        pc' = [pc EXCEPT ![w] = [at |-> "writing", period |-> period,
                                 dates |-> IF period = "cycle"
                                           THEN calculate_six_week_cycles_manual(start_date)
                                           ELSE calculate_two_week_cooling_periods(start_date),
                                 next |-> 1]]
    /\ UNCHANGED <<today, out, dropbox, local, redis, services>>

\* one r.set of the loop over the four keys
SetKey(w) ==
    /\ pc[w].at = "writing"
    /\ redis' = [dates |-> [redis.dates EXCEPT ![pc[w].period] =
                                update_redis_dates(@, pc[w].dates, pc[w].next)],
                 set_by |-> [redis.set_by EXCEPT ![pc[w].period][KeyOrder[pc[w].next]] = w]]
    /\ pc' = [pc EXCEPT ![w].next = @ + 1,
                        ![w].at = IF pc[w].next = Len(KeyOrder) THEN "done" ELSE "writing"]
    /\ UNCHANGED <<today, out, dropbox, local, services>>

NextRedis == ResolveStart \/ ManualStart \/ \E w \in RedisWriters : SetKey(w)

SpecRedis == InitRedis /\ [][NextRedis]_vars

\* the dates one calculation gives for a period that starts on start_date
OneCalculation(period, start_date) ==
    IF period = "cycle" THEN calculate_six_week_cycles(start_date)
    ELSE calculate_two_week_cooling_periods(start_date)

\* the start and end keys of the period were last set by two writers that
\* write different start dates
SetByTwo(period) ==
    LET a == redis.set_by[period].start_date
        b == redis.set_by[period].end_date
    IN  /\ a \in RedisWriters /\ b \in RedisWriters /\ a # b
        /\ pc[a].dates.start_date # pc[b].dates.start_date

\* C7: the writers of the cycle-date keys can race: when the keys of a period
\* were last set by two interleaved writers, the stored dates are not those of a
\* single calculation (the stored end date is not the one calculated from the
\* stored start date: start + 41 days for the six-week cycle).
C7_TornPeriod ==
    \A period \in Periods :
        SetByTwo(period) =>
            redis.dates[period].end_date #
                OneCalculation(period, redis.dates[period].start_date).end_date

C7_Witness ==
    /\ \A w \in RedisWriters : pc[w].at = "done"
    /\ SetByTwo("cycle")
    /\ strptime(redis.dates.cycle.end_date) # strptime(redis.dates.cycle.start_date) + 41

(***************************************************************************)
(* SpecList: the resolvers that look for a folder or a file in a Dropbox   *)
(* listing.  dropbox.vault is the listing of the vault folder, a sequence  *)
(* of folder names, each <<prefix, rest>> as in "01" "_Daily";             *)
(* dropbox.cycles is the listing of the _Cycles folder.  Dropbox hands out *)
(* a listing in pages of PageLimit entries.                                *)
(***************************************************************************)
MaxEntries == 3

FolderNames == {<<"01", "_Daily">>, <<"02", "_Weekly">>, <<"03", "_Notes">>}

\* dbx.files_list_folder and dbx.files_list_folder_continue: the page at cursor
files_list_folder(listing, cursor) ==
    [entries |-> SubSeq(listing, cursor + 1, Min2(cursor + PageLimit, Len(listing))),
     has_more |-> cursor + PageLimit < Len(listing),
     cursor |-> cursor + PageLimit]

\* update_daily_properties.py list_all_entries: while response.has_more
RECURSIVE list_more(_, _, _)
list_more(listing, response, entries) ==
    IF response.has_more
    THEN LET next == files_list_folder(listing, response.cursor)
         IN  list_more(listing, next, entries \o next.entries)
    ELSE entries

list_all_entries(listing) ==
    LET response == files_list_folder(listing, 0)
    IN  list_more(listing, response, response.entries)

\* update_daily_properties.py find_folder_in_path: a folder of the whole listing
\* whose name contains the term
find_folder_in_path(listing, search_term) ==
    \E i \in 1..Len(list_all_entries(listing)) : list_all_entries(listing)[i][2] = search_term

\* create_daily_journal.py find_daily_folder: a folder in response.entries of
\* dbx.files_list_folder whose name ends with "_Daily"
find_daily_folder(listing) ==
    \E i \in 1..Len(files_list_folder(listing, 0).entries) :
        files_list_folder(listing, 0).entries[i][2] = "_Daily"

Resolvers == {"find_daily_folder", "date_range_exists", "find_folder_in_path"}

\* whether the resolver finds its match
Resolved(fn) ==
    CASE fn = "find_daily_folder" -> find_daily_folder(dropbox.vault)
      [] fn = "date_range_exists" -> date_range_exists(dropbox.cycles, date_range(today))
      [] fn = "find_folder_in_path" -> find_folder_in_path(dropbox.vault, "_Daily")

\* a _Cycles folder of k files, the one at position at being the page of the
\* week after today (none when at = 0)
CyclesWith(k, at) == [i \in 1..k |-> CycleFile(i, today + 7 * (i - at))]

InitList ==
    /\ today = NewYearsEve
    /\ out = None /\ local = None /\ redis = None /\ services = None /\ pc = None
    /\ \E vault \in SeqsOver(FolderNames, 0, MaxEntries), k \in 0..MaxEntries :
        \E at \in 0..k :
            /\ \A i, j \in 1..Len(vault) : i # j => vault[i] # vault[j]
            /\ dropbox = [vault |-> vault, cycles |-> CyclesWith(k, at)]

RunResolver ==
    /\ \E fn \in Resolvers : out' = [fn |-> fn, found |-> Resolved(fn)]
    /\ UNCHANGED <<today, dropbox, local, redis, services, pc>>

SpecList == InitList /\ [][RunResolver]_vars

\* a match is somewhere in the listing the resolver looks at
MatchExists(fn) ==
    IF fn = "date_range_exists"
    THEN \E i \in 1..Len(dropbox.cycles) : dropbox.cycles[i].name.range = date_range(today)
    ELSE \E i \in 1..Len(dropbox.vault) : dropbox.vault[i][2] = "_Daily"

\* C8: every resolver looks at all children of the folder it lists, on every
\* page of the listing, so it finds a matching entry whenever there is one.
C8_ResolverFindsAnyPage ==
    out # None => (MatchExists(out.fn) => out.found)

(***************************************************************************)
(* SpecExit: the exit code of the scripts.  local.vault_path_set says      *)
(* whether DROPBOX_OBSIDIAN_VAULT_PATH is set, dropbox.vault is the        *)
(* listing of the vault folder and dropbox.api_error says whether the      *)
(* Dropbox calls raise ApiError.  A run gives the exit code of the         *)
(* process, whether the work was done and whether main caught a failure.   *)
(***************************************************************************)
Exit(exit_code, succeeded, caught) ==
    [exit_code |-> exit_code, succeeded |-> succeeded, caught |-> caught]

\* create_weeks.py find_weekly_folder
find_weekly_folder(listing) ==
    \E i \in 1..Len(files_list_folder(listing, 0).entries) :
        files_list_folder(listing, 0).entries[i][2] = "_Weekly"

\* create_daily_journal.py main: every failure is printed, and main returns
create_daily_journal_main(vault_path_set, listing, api_error) ==
    IF ~vault_path_set THEN Exit(0, FALSE, TRUE)
    ELSE IF api_error THEN Exit(0, FALSE, TRUE)
    ELSE IF ~find_daily_folder(listing) THEN Exit(0, FALSE, TRUE)
    ELSE Exit(0, TRUE, FALSE)

\* update_daily_properties.py main: list_all_entries logs an ApiError and gives
\* no entries, get_journal_folder_path raises FileNotFoundError, main logs it
update_daily_properties_main(vault_path_set, listing, api_error) ==
    IF ~vault_path_set THEN Exit(0, FALSE, TRUE)
    ELSE IF ~find_folder_in_path(IF api_error THEN <<>> ELSE listing, "_Daily")
    THEN Exit(0, FALSE, TRUE)
    ELSE Exit(0, TRUE, FALSE)

\* create_weeks.py main: sys.exit(1) when the variable is unset or a folder is
\* not found; an ApiError is not caught and ends the process with code 1
create_weeks_main(vault_path_set, listing, api_error) ==
    IF ~vault_path_set THEN Exit(1, FALSE, TRUE)
    ELSE IF api_error THEN Exit(1, FALSE, FALSE)
    ELSE IF ~find_weekly_folder(listing) THEN Exit(1, FALSE, TRUE)
    ELSE Exit(0, TRUE, FALSE)

InitExit ==
    /\ today = 0
    /\ out = None /\ redis = None /\ services = None /\ pc = None
    /\ \E set \in BOOLEAN : local = [vault_path_set |-> set]
    /\ \E vault \in SeqsOver(FolderNames, 0, MaxEntries), api_error \in BOOLEAN :
        /\ \A i, j \in 1..Len(vault) : i # j => vault[i] # vault[j]
        /\ dropbox = [vault |-> vault, api_error |-> api_error]

RunMain ==
    /\ \E script \in {"create_daily_journal", "update_daily_properties", "create_weeks"} :
        out' = [fn |-> script,
                exit |-> CASE script = "create_daily_journal" ->
                                 create_daily_journal_main(local.vault_path_set, dropbox.vault,
                                                           dropbox.api_error)
                           [] script = "update_daily_properties" ->
                                 update_daily_properties_main(local.vault_path_set, dropbox.vault,
                                                              dropbox.api_error)
                           [] script = "create_weeks" ->
                                 create_weeks_main(local.vault_path_set, dropbox.vault,
                                                   dropbox.api_error)]
    /\ UNCHANGED <<today, dropbox, local, redis, services, pc>>

SpecExit == InitExit /\ [][RunMain]_vars

\* C9: every script exits with code 0 only when its work succeeded, and with
\* code 1 whenever its main function caught a top-level failure.
C9_ExitCodeTellsOutcome ==
    out # None =>
        /\ (out.exit.exit_code = 0 => out.exit.succeeded)
        /\ (out.exit.caught => out.exit.exit_code = 1)

(***************************************************************************)
(* SpecLogs: clear_cron_logs.py.  local.files are the files of the         *)
(* cron_logs directory: name, whether the name ends with .log, the         *)
(* modification time in clock ticks, and whether os.remove can remove the  *)
(* file (else it raises OSError).  local.backups are the backup            *)
(* directories made.  today is the clock, in ticks, at the run; out is the *)
(* run: its arguments and the files it found.                              *)
(***************************************************************************)
MaxLogs == 2
MaxKeepDays == 2

LogAges == {0, TicksPerDay, TicksPerDay + 1, 2 * TicksPerDay + 1}

\* get_log_files: glob *.log
get_log_files(files) == {f \in files : f.is_log}

\* the mutation: a file exactly N days old counts as older
is_file_older_than_days_or_equal(file, days, now) ==
    file.mtime <= now - days * TicksPerDay
\* is_file_older_than_days: file_mtime < datetime.now() - timedelta(days=days)
is_file_older_than_days(file, days, now) ==
    file.mtime < now - days * TicksPerDay

\* the mutation: the backup made before the dry-run test
clear_logs_backup_first(dir, keep_days_given, keep_days, dry_run, create_backup, delete_all, now) ==
    LET log_files == get_log_files(dir.files)
        files_to_delete ==
            IF delete_all \/ ~keep_days_given THEN log_files
            ELSE {f \in log_files : is_file_older_than_days(f, keep_days, now)}
        backups == IF create_backup THEN dir.backups \cup {files_to_delete} ELSE dir.backups
    IN  IF log_files = {} THEN dir
        ELSE IF files_to_delete = {} THEN dir
        ELSE IF dry_run THEN [files |-> dir.files, backups |-> backups]
        ELSE [files |-> dir.files \ {f \in files_to_delete : f.removable}, backups |-> backups]
\* clear_logs: the directory after the call
clear_logs(dir, keep_days_given, keep_days, dry_run, create_backup, delete_all, now) ==
    LET log_files == get_log_files(dir.files)
        files_to_delete ==
            IF delete_all \/ ~keep_days_given THEN log_files
            ELSE {f \in log_files : is_file_older_than_days(f, keep_days, now)}
    IN  IF log_files = {} THEN dir
        ELSE IF files_to_delete = {} THEN dir
        ELSE IF dry_run THEN dir
        ELSE [files |-> dir.files \ {f \in files_to_delete : f.removable},
              backups |-> IF create_backup THEN dir.backups \cup {files_to_delete}
                          ELSE dir.backups]

InitLogs ==
    /\ today = (MaxKeepDays + 1) * TicksPerDay
    /\ out = None /\ dropbox = None /\ redis = None /\ services = None /\ pc = None
    /\ \E present \in SUBSET (1..MaxLogs) :
        \E age \in [present -> LogAges],
           kind \in [present -> {"log", "locked log", "other"}] :
            local = [files |-> {[name |-> n, is_log |-> kind[n] # "other",
                                 mtime |-> today - age[n],
                                 removable |-> kind[n] # "locked log"] : n \in present},
                     backups |-> {}]

\* main: the arguments parsed, then clear_logs with
\* delete_all = args.all or args.keep_days is None
RunClearLogs ==
    /\ out = None
    /\ \E keep_days_given, dry_run, backup, all \in BOOLEAN, keep_days \in 0..MaxKeepDays :
        /\ (~keep_days_given => keep_days = 0)
        /\ local' = clear_logs(local, keep_days_given, keep_days, dry_run, backup,
                               all \/ ~keep_days_given, today)
        /\ out' = [fn |-> "clear_cron_logs", keep_days_given |-> keep_days_given,
                   keep_days |-> keep_days, dry_run |-> dry_run, backup |-> backup,
                   all |-> all, found |-> local.files]
    /\ UNCHANGED <<today, dropbox, redis, services, pc>>

SpecLogs == InitLogs /\ [][RunClearLogs]_vars

\* the log files the run found that were modified within the last N days, and
\* those older than N days
WithinLastDays(N) == {f \in out.found : f.is_log /\ f.mtime >= today - N * TicksPerDay}
OlderThanDays(N) == {f \in out.found : f.is_log /\ f.mtime < today - N * TicksPerDay}

C11_DefaultKeepsSevenDays ==
    (out # None /\ out.fn = "clear_cron_logs" /\ ~out.keep_days_given /\ ~out.all) =>
        WithinLastDays(7) \subseteq local.files

\* C12: with --dry-run no file is deleted and no backup directory is made,
\* whatever --keep-days, --all and --backup are.
C12_DryRunChangesNothing ==
    (out # None /\ out.fn = "clear_cron_logs" /\ out.dry_run) =>
        local.files = out.found /\ local.backups = {}

C12_Witness ==
    /\ out # None /\ out.fn = "clear_cron_logs" /\ out.dry_run /\ out.backup
    /\ \E f \in out.found : f.is_log /\ f.removable /\ (out.all \/ ~out.keep_days_given)
    /\ local.files = out.found

(***************************************************************************)
(* SpecOrganize: a session of the vault organizer.  A file is a name and   *)
(* its content; a name is <<base>> for "base.md" and <<base, t>> for       *)
(* "base_t.md", t a timestamp to the second.  local.root are the markdown  *)
(* files of the vault root, local.folders[d] those of destination folder   *)
(* d.  today is the clock in seconds.  pc.files is the list main() still   *)
(* has to show, pc.skipped the names answered with [s], pc.quit whether    *)
(* [q] was entered.  out.start is the content of every file at the start.  *)
(***************************************************************************)
MaxTime == 2

COMMON_FOLDERS == {"06_Notes+Ideas", "13_Places"}
SortedNames == <<<<"a">>, <<"b">>>>
DestNames == {<<"a">>, <<"a", MaxTime>>, <<"b">>}

\* utils.py find_root_markdown_files: the names in the root, sorted
find_root_markdown_files(root) ==
    SelectSeq(SortedNames, LAMBDA name : \E f \in root : f.name = name)

\* utils.py move_file_to_folder: on a collision the name gets the timestamp;
\* shutil.move then puts the file under dest_path, replacing a file that has
\* that name
move_file_to_folder(vault, file, folder_path, now) ==
    LET exists(name) == \E f \in vault.folders[folder_path] : f.name = name
        dest_path == IF exists(file.name) THEN Append(file.name, now) ELSE file.name
    IN  [root |-> vault.root \ {file},
         folders |-> [vault.folders EXCEPT ![folder_path] =
                         {f \in @ : f.name # dest_path}
                             \cup {[name |-> dest_path, content |-> file.content]}]]

FilesAt(place, names) == {[name |-> n, content |-> <<place, n>>] : n \in names}

InitOrganize ==
    /\ today = 1
    /\ dropbox = None /\ redis = None /\ services = None
    /\ \E root \in SUBSET Range(SortedNames), dest \in [COMMON_FOLDERS -> SUBSET DestNames] :
        /\ local = [root |-> FilesAt("root", root),
                    folders |-> [d \in COMMON_FOLDERS |-> FilesAt(d, dest[d])]]
        /\ out = [start |-> FilesAt("root", root)
                              \cup UNION {FilesAt(d, dest[d]) : d \in COMMON_FOLDERS}]
        /\ pc = [files |-> find_root_markdown_files(FilesAt("root", root)),
                 skipped |-> {}, quit |-> FALSE]

\* organize.py process_file with the loop of main around it: the user answers
\* [q], [s] or the number of a folder for the next file
process_file ==
    /\ ~pc.quit /\ pc.files # <<>>
    /\ LET name == Head(pc.files)
           file == CHOOSE f \in local.root : f.name = name
       IN  \/ /\ pc' = [pc EXCEPT !.quit = TRUE]
              /\ UNCHANGED local
           \/ /\ pc' = [pc EXCEPT !.files = Tail(@), !.skipped = @ \cup {name}]
              /\ UNCHANGED local
           \/ \E dest_folder \in COMMON_FOLDERS :
                /\ local' = move_file_to_folder(local, file, dest_folder, today)
                /\ pc' = [pc EXCEPT !.files = Tail(@)]
    /\ UNCHANGED <<today, out, dropbox, redis, services>>

\* a second passes while the user reads
Tick ==
    /\ today < MaxTime
    /\ today' = today + 1
    /\ UNCHANGED <<out, dropbox, local, redis, services, pc>>

NextOrganize == process_file \/ Tick

SpecOrganize == InitOrganize /\ [][NextOrganize]_vars

\* the places (root or folder) and names under which content is stored
StoredAs(content) ==
    {<<"root", f.name>> : f \in {g \in local.root : g.content = content}}
        \cup UNION {{<<d, f.name>> : f \in {g \in local.folders[d] : g.content = content}} :
                        d \in COMMON_FOLDERS}

\* C13: in an organizer session no note is lost or overwritten: every file of
\* the start is still stored, with its content, in exactly one place; a file
\* answered with [s], and after [q] every file not yet shown, is still in the
\* vault root.
C13_NoNoteLost ==
    /\ \A f \in out.start : Cardinality(StoredAs(f.content)) = 1
    /\ \A name \in pc.skipped \cup (IF pc.quit THEN Range(pc.files) ELSE {}) :
        [name |-> name, content |-> <<"root", name>>] \in local.root

\* resolve_cycle_dates has run alone, from reading the keys to the last r.set,
\* and changed Redis
ResolvedAlone ==
    /\ pc["resolve_cycle_dates"].at = "done"
    /\ pc["resolve_cycle_dates"].period # ""
    /\ pc["update_long_cycle_start_dates"].at = "start"

\* the stored current cooling period and current cycle have no day in common
NoSharedDay(stored) ==
    \/ strptime(stored.cooling.end_date) < strptime(stored.cycle.start_date)
    \/ strptime(stored.cycle.end_date) < strptime(stored.cooling.start_date)

\* C14: whenever resolve_cycle_dates changes Redis, the current cooling period
\* and the current 6-week cycle it leaves share no day, so today lies in at
\* most one of them.
C14_ResolvedPeriodsDisjoint ==
    ResolvedAlone =>
        /\ NoSharedDay(redis.dates)
        /\ ~(/\ is_date_between(today, strptime(redis.dates.cooling.start_date),
                                strptime(redis.dates.cooling.end_date))
             /\ is_date_between(today, strptime(redis.dates.cycle.start_date),
                                strptime(redis.dates.cycle.end_date)))

C14_Witness ==
    /\ ResolvedAlone
    /\ pc["resolve_cycle_dates"].period = "cycle"
    /\ strptime(redis.dates.cycle.start_date) = strptime(redis.dates.cooling.end_date) + 1

----------------------------------------------------------------------------
\* SpecDaily: resolve_cycle_dates run once on every calendar day, alone.

MaxDays == 120

\* days since the period that contains today began, and days since the other ended
CycleAges == 0 .. (7 * 6 - 1)
CoolingAges == 0 .. 13
EndedAgo == {1, 2, 13, 14, 41, 42, 60}

\* the current period of each kind as its calculator stores it
StoredPeriod(period, start) ==
    IF period = "cycle"
    THEN calculate_six_week_cycles(strftime(start))
    ELSE calculate_two_week_cooling_periods(strftime(start))

PeriodDays(period) == IF period = "cycle" THEN 42 ELSE 14

OtherPeriod(period) == IF period = "cycle" THEN "cooling" ELSE "cycle"

\* Redis holds a period that contains today and another that has ended or
\* begins the day after the first one ends
InitDaily ==
    /\ today = RunDay
    /\ \E P \in Periods :
       \E age \in (IF P = "cycle" THEN CycleAges ELSE CoolingAges) :
       \E ended \in {0} \cup EndedAgo :
          LET Q == OtherPeriod(P)
              p_start == RunDay - age
              \* 0: the other period has not ended, it follows
              q_start == IF ended = 0
                         THEN p_start + PeriodDays(P)
                         ELSE RunDay - ended - (PeriodDays(Q) - 1)
          IN  redis = [dates |-> [k \in Periods |->
                          IF k = P THEN StoredPeriod(P, p_start)
                                   ELSE StoredPeriod(Q, q_start)]]
    /\ out = None
    /\ pc = "run"
    /\ dropbox = None /\ local = None /\ services = None

\* the day's run of resolve_cycle_dates with every r.set of update_redis_dates
DailyRun ==
    /\ pc = "run"
    /\ LET r == resolve_cycle_dates(today, redis.dates)
       IN  /\ redis' = [dates |-> IF r.changed
                                  THEN [redis.dates EXCEPT ![r.period] = r.dates]
                                  ELSE redis.dates]
           /\ out' = [fn |-> "resolve_cycle_dates", changed |-> r.changed, period |-> r.period]
    /\ pc' = "ran"
    /\ UNCHANGED <<today, dropbox, local, services>>

\* midnight
NextDay ==
    /\ pc = "ran"
    /\ today < RunDay + MaxDays
    /\ today' = today + 1
    /\ pc' = "run"
    /\ UNCHANGED <<out, redis, dropbox, local, services>>

NextDaily == DailyRun \/ NextDay

SpecDaily == InitDaily /\ [][NextDaily]_vars

\* the kinds of current period that contain the day
PeriodsOf(day, stored) ==
    {k \in Periods : is_date_between(day, strptime(stored[k].start_date),
                                     strptime(stored[k].end_date))}

\* the period holds the number of days of its kind
FullLength(stored, k) ==
    strptime(stored[k].end_date) - strptime(stored[k].start_date) + 1 = PeriodDays(k)

\* after the run of a later day: today is in exactly one current period, both
\* periods have their length, and the other one begins the day after it ends
AlternatesAt(day, stored) ==
    /\ Cardinality(PeriodsOf(day, stored)) = 1
    /\ \A k \in Periods : FullLength(stored, k)
    /\ \A k \in PeriodsOf(day, stored) :
          strptime(stored[OtherPeriod(k)].start_date) = strptime(stored[k].end_date) + 1

\* C15: with the resolver run once a day from a state where today is in one
\* period and the other has ended or follows it, after the run of every later
\* day today lies in exactly one current period, a 42-day cycle and a 14-day
\* cooling period follow each other without gap or overlap, and the run never
\* rewrites the period that today is in.
C15_PeriodsAlternate ==
    /\ []((pc = "ran" /\ today > RunDay) => AlternatesAt(today, redis.dates))
    /\ [][(pc = "run" /\ today > RunDay) =>
             \A k \in PeriodsOf(today, redis.dates) :
                 /\ redis'.dates[k] = redis.dates[k]
                 /\ strptime(redis.dates[k].start_date) <= today]_vars

\* the cycle and the following cooling period and cycle have each begun in turn
C15_Witness ==
    /\ pc = "ran"
    /\ today >= RunDay + 100
    /\ out # None /\ out.changed /\ out.period = "cooling"
    /\ PeriodsOf(today, redis.dates) = {"cycle"}

----------------------------------------------------------------------------
\* SpecCron: the generated crontab on a server whose clock is UTC, with the
\* weekly creation jobs and update_daily_properties.

MaxCronDays == 14
WarmUpDays == 21

\* the crontab lines of the weekly files and of update_daily_properties:
\* minute of the UTC day and cron days of week (0 is Sunday)
cron_jobs ==
    { [job |-> "create_weeks", minute |-> 6 * 60, dow |-> {1}],
      [job |-> "create_newsletter_page", minute |-> 6 * 60 + 30, dow |-> {5}],
      [job |-> "create_new_cycle_page", minute |-> 8 * 60 + 30, dow |-> {2}],
      [job |-> "create_weekly_health_review_page", minute |-> 9 * 60, dow |-> {2}],
      [job |-> "create_weekly_map", minute |-> 6 * 60, dow |-> {4}],
      [job |-> "update_daily_properties", minute |-> 60 + 10, dow |-> 0 .. 6] }

cron_dow(day) == (weekday(day) + 1) % 7

\* the job is the next line of the crontab to fire on this UTC day
NextDue(job) ==
    LET due == {j \in cron_jobs : cron_dow(today) \in j.dow /\ j.minute > pc}
    IN  \E j \in due : j.job = job /\ \A k \in due : j.minute <= k.minute

\* datetime.now(): the date of the server clock
utc_now == today

\* datetime.now(pytz.timezone("US/Eastern")): the date, utc_offset hours behind
eastern_now(minute) == IF minute < services.utc_offset * 60 THEN today - 1 ELSE today

\* the folder and the file name a creation job makes when started on the date
JobFile(job, now) ==
    CASE job = "create_weeks" ->
           [folder |-> "_Weeks",
            name |-> [prefix |-> "Week-Ending-", dates |-> strftime(upcoming_sunday(now))]]
      [] job = "create_newsletter_page" ->
           [folder |-> "_Newsletters",
            name |-> [prefix |-> "Weekly Newsletter ",
                      dates |-> strftime_bdY(second_upcoming_sunday(now))]]
      [] job = "create_new_cycle_page" ->
           [folder |-> "_Weekly-Cycles",
            name |-> [prefix |-> "Cycle ", dates |-> date_range(now)]]
      [] job = "create_weekly_health_review_page" ->
           [folder |-> "_Weekly-Health-Review",
            name |-> [prefix |-> "Weekly Health Review ", dates |-> date_range(now)]]
      [] job = "create_weekly_map" ->
           [folder |-> "_Weekly-Maps",
            name |-> [prefix |-> "Weekly Map ", dates |-> strftime(sunday_after_next(now))]]

CreationJobs == {j \in cron_jobs : j.job # "update_daily_properties"}
WeeklyFolders == {JobFile(j.job, RunDay).folder : j \in CreationJobs}

\* get_tomorrow
get_tomorrow(now) == now + 1

\* get_week_ending_sunday: the Sunday on or after tomorrow
get_week_ending_sunday(now) ==
    LET tomorrow == get_tomorrow(now)
        days_until_sunday == (6 - weekday(tomorrow)) % 7
    IN  strftime(tomorrow + days_until_sunday)

\* get_cycle_date_range: the Wednesday on or before tomorrow to the Tuesday after
get_cycle_date_range(now) ==
    LET tomorrow == get_tomorrow(now)
        days_since_wednesday == (weekday(tomorrow) - 2) % 7
        cycle_start == tomorrow - days_since_wednesday
        cycle_end == cycle_start + 6
    IN  <<strftime_bd(cycle_start), strftime_bdY(cycle_end)>>

\* lookup_file_in_folder: a file whose name contains the search string
lookup_file_in_folder(files, file_template) ==
    \E f \in files : f.dates = file_template.dates /\ file_template.prefix \in {"", f.prefix}

\* get_dynamic_mappings: the keys whose file was found
get_dynamic_mappings(folders, now) ==
    LET week_ending == get_week_ending_sunday(now)
        mappings ==
          { [key |-> "Weeks", target_folder |-> "_Weeks",
             target_file_string |-> [prefix |-> "", dates |-> week_ending]],
            [key |-> "Weekly Map", target_folder |-> "_Weekly-Maps",
             target_file_string |-> [prefix |-> "Weekly Map ", dates |-> week_ending]],
            [key |-> "_Cycles", target_folder |-> "_Weekly-Cycles",
             target_file_string |-> [prefix |-> "", dates |-> get_cycle_date_range(now)]],
            [key |-> "_Weekly Health Reviews", target_folder |-> "_Weekly-Health-Review",
             target_file_string |-> [prefix |-> "", dates |-> get_cycle_date_range(now)]],
            [key |-> "Newsletter", target_folder |-> "_Newsletters",
             target_file_string |->
                 [prefix |-> "Weekly Newsletter ",
                  dates |-> strftime_bdY(strptime(week_ending))]] }
    IN  {m.key : m \in {m \in mappings :
                           lookup_file_in_folder(folders[m.target_folder], m.target_file_string)}}

WeeklyKeys == {"Weeks", "Weekly Map", "_Cycles", "_Weekly Health Reviews", "Newsletter"}

\* the crontab has been installed for WarmUpDays: every creation job has left
\* the files of its earlier runs
InitCron ==
    /\ today \in RunDay .. (RunDay + 6)
    /\ pc = -1
    /\ services \in {[utc_offset |-> 4], [utc_offset |-> 5]}
    /\ dropbox = [folder \in WeeklyFolders |->
                    {JobFile(j.job, d).name :
                        <<j, d>> \in {jd \in CreationJobs \X ((today - WarmUpDays) .. (today - 1)) :
                                         /\ cron_dow(jd[2]) \in jd[1].dow
                                         /\ JobFile(jd[1].job, jd[2]).folder = folder}}]
    /\ out = None
    /\ local = None /\ redis = None

\* a creation job started by cron: the file of its week is uploaded
RunCreation(job, now) ==
    /\ NextDue(job)
    /\ LET file == JobFile(job, now)
       IN  dropbox' = [dropbox EXCEPT ![file.folder] = @ \cup {file.name}]
    /\ pc' = (CHOOSE j \in cron_jobs : j.job = job).minute
    /\ UNCHANGED <<today, out, local, redis, services>>

create_weeks == RunCreation("create_weeks", utc_now)
create_newsletter_page == RunCreation("create_newsletter_page", utc_now)
create_new_cycle_page == RunCreation("create_new_cycle_page", utc_now)
create_weekly_health_review_page == RunCreation("create_weekly_health_review_page", utc_now)
create_weekly_map == RunCreation("create_weekly_map", eastern_now(6 * 60))

\* update_daily_properties.py at 01:10 UTC: the links for tomorrow's journal
update_daily_properties_cron ==
    /\ NextDue("update_daily_properties")
    /\ out' = [fn |-> "update_daily_properties",
               tomorrow |-> get_tomorrow(eastern_now(60 + 10)),
               linked |-> get_dynamic_mappings(dropbox, eastern_now(60 + 10))]
    /\ pc' = 60 + 10
    /\ UNCHANGED <<today, dropbox, local, redis, services>>

\* midnight UTC, after the last job of the day
Midnight ==
    /\ \A j \in cron_jobs : ~NextDue(j.job)
    /\ today < RunDay + 6 + MaxCronDays
    /\ today' = today + 1
    /\ pc' = -1
    /\ UNCHANGED <<out, dropbox, local, redis, services>>

NextCron ==
    \/ create_weeks \/ create_newsletter_page \/ create_new_cycle_page
    \/ create_weekly_health_review_page \/ create_weekly_map
    \/ update_daily_properties_cron \/ Midnight

SpecCron == InitCron /\ [][NextCron]_vars

\* C16: whenever update_daily_properties runs under the generated crontab, the
\* Week-Ending file, the Weekly Map, the weekly Cycle, the Weekly Health Review
\* and the Weekly Newsletter of the week of tomorrow already exist, so all five
\* are linked, on every day of the week.
C16_WeeklyFilesExistBeforeLinking ==
    (out # None /\ out.fn = "update_daily_properties") => out.linked = WeeklyKeys

----------------------------------------------------------------------------
\* SpecModified: update_modified_files_today.py started by cron once a day.
\* The clock counts steps of five minutes.

TicksPerHour == 12
RunDays == 2

Hours(h) == h * TicksPerHour
\* "5 0 * * *"
CronTick == 1
LastTick == RunDays * Hours(24) + CronTick + 1

WatchedFiles == {"note.md"}

\* get_modified_files_since_cutoff: the files with client_modified after the cutoff
get_modified_files_since_cutoff(listing, cutoff_dt) ==
    {f \in DOMAIN listing : listing[f] > cutoff_dt}

\* main up to the selection: the cutoff from the clock and the stored last run
final_cutoff(now_utc, stored) ==
    LET cutoff_23h55 == now_utc - (Hours(24) - 1)
        last_run_dt == IF stored = <<>> THEN now_utc - Hours(24) ELSE stored[1]
    IN  Max2(cutoff_23h55, last_run_dt)

\* the script has never run, or ran at the cron time of the day before; the
\* file was last modified within the two days before
InitModified ==
    /\ today = 0
    /\ redis \in {[last_run |-> <<>>], [last_run |-> <<CronTick - Hours(24)>>]}
    /\ dropbox \in [WatchedFiles -> (0 - Hours(24) - 2) .. 0]
    /\ out = None
    /\ local = None /\ services = None /\ pc = None

\* a client saves the file
ModifyFile(f) ==
    /\ dropbox' = [dropbox EXCEPT ![f] = today]
    /\ dropbox'[f] # dropbox[f]
    /\ UNCHANGED <<today, out, redis, local, services, pc>>

\* the files modified after the last run recorded before this run, or, with no
\* run recorded, within the 24 hours before this run
ModifiedSinceLastRun(listing, now_utc, stored) ==
    {f \in DOMAIN listing :
        IF stored = <<>> THEN listing[f] > now_utc - Hours(24) ELSE listing[f] > stored[1]}

\* main: select, process every selected file, store the time of this run.
\* update_journal_property uploads a selected file unless the link is there.
update_modified_files_today_main ==
    /\ today % Hours(24) = CronTick
    /\ ~(out # None /\ out.now_utc = today)
    /\ LET now_utc == today
           modified_files ==
               get_modified_files_since_cutoff(dropbox, final_cutoff(now_utc, redis.last_run))
       IN  /\ out' = [fn |-> "update_modified_files_today", now_utc |-> now_utc,
                      modified_files |-> modified_files,
                      since_last_run |-> ModifiedSinceLastRun(dropbox, now_utc, redis.last_run)]
           /\ \E uploaded \in SUBSET modified_files :
                 dropbox' = [f \in WatchedFiles |->
                                IF f \in uploaded THEN now_utc ELSE dropbox[f]]
           /\ redis' = [last_run |-> <<now_utc>>]
    /\ UNCHANGED <<today, local, services, pc>>

\* five minutes pass; cron starts the script when its time has come
ClockTick ==
    /\ today < LastTick
    /\ (today % Hours(24) = CronTick) => (out # None /\ out.now_utc = today)
    /\ today' = today + 1
    /\ UNCHANGED <<out, dropbox, redis, local, services, pc>>

NextModified ==
    \/ \E f \in WatchedFiles : ModifyFile(f)
    \/ update_modified_files_today_main
    \/ ClockTick

SpecModified == InitModified /\ [][NextModified]_vars

\* C17: a run of update_modified_files_today selects every watched file whose
\* client_modified is later than the recorded last run, or within the last 24
\* hours when none is recorded, also when runs are exactly 24 hours apart.
C17_NoModificationMissed ==
    (out # None /\ out.fn = "update_modified_files_today") =>
        out.since_last_run \subseteq out.modified_files

----------------------------------------------------------------------------
\* SpecJournal: update_journal_property of update_modified_files_today.py and
\* of update_single_modified_file.py on one note.  The clock and
\* client_modified count hours from midnight UTC of RunDay.

MaxHour == 30
MaxLinks == 3

JournalScripts == {"update_modified_files_today", "update_single_modified_file"}

\* client_modified_utc.astimezone(local_tz).strftime("%b %-d, %Y")
formatted_date_local(client_modified, utc_offset) ==
    strftime_bdY(RunDay + ((client_modified - utc_offset) \div 24))

\* client_modified.strftime("%b %-d, %Y"): the date of the UTC timestamp
formatted_date_utc(client_modified) ==
    strftime_bdY(RunDay + (client_modified \div 24))

\* the links of the first property with the key, or none
LinksOf(properties, key) ==
    IF \E i \in 1 .. Len(properties) : properties[i].key = key
    THEN properties[CHOOSE i \in 1 .. Len(properties) :
                       /\ properties[i].key = key
                       /\ \A j \in 1 .. (i - 1) : properties[j].key # key].links
    ELSE <<>>

\* update_journal_property from the regular expression search to the upload:
\* the note to upload, or no upload when the link is anywhere in the properties
journal_property_update(note, date) ==
    IF note.front_matter
    THEN IF \E i \in 1 .. Len(note.properties) : date \in Range(note.properties[i].links)
         THEN [upload |-> FALSE, note |-> note]
         ELSE IF \E i \in 1 .. Len(note.properties) : note.properties[i].key = "Journal"
         THEN [upload |-> TRUE,
               note |-> [note EXCEPT !.properties =
                            [i \in 1 .. Len(note.properties) |->
                                IF note.properties[i].key = "Journal"
                                THEN [note.properties[i] EXCEPT !.links = Append(@, date)]
                                ELSE note.properties[i]]]]
         ELSE [upload |-> TRUE,
               note |-> [note EXCEPT !.properties =
                            Append(@, [key |-> "Journal", links |-> <<date>>])]]
    ELSE [upload |-> TRUE,
          note |-> [front_matter |-> TRUE,
                    properties |-> <<[key |-> "Journal", links |-> <<date>>]>>]]

NoteDates == {strftime_bdY(RunDay - 1), strftime_bdY(RunDay)}

\* a note without front matter, or with a Created property, a Journal property
\* without repeated links, both or neither
JournalNotes ==
    {[front_matter |-> FALSE, properties |-> <<>>]} \cup
    {[front_matter |-> TRUE, properties |-> created \o journal] :
        created \in {<<>>} \cup {<<[key |-> "Created", links |-> <<d>>]>> : d \in NoteDates},
        journal \in {<<>>} \cup {<<[key |-> "Journal", links |-> l]>> :
                                    l \in {<<>>} \cup {<<d>> : d \in NoteDates}}}

InitJournal ==
    /\ today \in {2, 4, 12}
    /\ \E client_modified \in {2, 4, 12} :
          /\ client_modified <= today
          /\ \E note \in JournalNotes :
                dropbox = [note |-> note, client_modified |-> client_modified]
    /\ services \in {[utc_offset |-> 4], [utc_offset |-> 5]}
    /\ out = None
    /\ local = None /\ redis = None /\ pc = None

\* one call of update_journal_property; the upload passes no client_modified,
\* so Dropbox stamps the file with the time of the upload
RunUpdateJournalProperty(script) ==
    /\ Len(LinksOf(dropbox.note.properties, "Journal")) < MaxLinks
    /\ LET date_of_file ==
               IF script = "update_modified_files_today"
               THEN formatted_date_local(dropbox.client_modified, services.utc_offset)
               ELSE formatted_date_utc(dropbox.client_modified)
           r == journal_property_update(dropbox.note, date_of_file)
       IN  /\ dropbox' = IF r.upload
                         THEN [note |-> r.note, client_modified |-> today]
                         ELSE dropbox
           /\ out' = [fn |-> "update_journal_property", script |-> script,
                      uploaded |-> r.upload,
                      journal |-> LinksOf(r.note.properties, "Journal"),
                      local_date |->
                          formatted_date_local(dropbox.client_modified, services.utc_offset)]
    /\ UNCHANGED <<today, local, redis, services, pc>>

\* a client saves the note
SaveNote ==
    /\ dropbox.client_modified # today
    /\ dropbox' = [dropbox EXCEPT !.client_modified = today]
    /\ UNCHANGED <<today, out, local, redis, services, pc>>

HourPasses ==
    /\ today < MaxHour
    /\ today' = today + 1
    /\ UNCHANGED <<out, dropbox, local, redis, services, pc>>

NextJournal ==
    \/ \E script \in JournalScripts : RunUpdateJournalProperty(script)
    \/ SaveNote
    \/ HourPasses

SpecJournal == InitJournal /\ [][NextJournal]_vars

\* how often the link is among the links
CountOf(links, date) == Cardinality({i \in 1 .. Len(links) : links[i] = date})

\* C18: after update_journal_property has completed, the Journal property of
\* the note holds the link to the local date of the client_modified it read
\* exactly once.
C18_JournalHasLinkOnce ==
    (out # None /\ out.fn = "update_journal_property") =>
        CountOf(out.journal, out.local_date) = 1

====
